---- MODULE Spec2Model ----
(***************************************************************************)
(* Model of the FOV-summary quality-control capsule:                       *)
(*   - Evaluation.evaluate_metrics / evaluate_metrics_all (threshold rule) *)
(*   - combine_images (image tiling with row labels)                       *)
(*   - Evaluation.collect_pattern_files (directory scan)                   *)
(***************************************************************************)
EXTENDS Integers, Sequences, FiniteSets, TLC

VARIABLES
    ev_fn,          \* which evaluator was called last ("none" before any call)
    ev_metrics,     \* metrics.values() of the last call, in insertion order
    ev_threshold,   \* threshold of the last call
    ev_operation,   \* operation argument of the last call
    ev_out          \* outcome of the last call

ev_vars == <<ev_fn, ev_metrics, ev_threshold, ev_operation, ev_out>>

VARIABLES
    ci_pc,          \* position inside combine_images
    ci_args,        \* arguments of the call
    ci_images,      \* the list `images`: size of every opened image
    ci_open,        \* indices (0-based) of opened images not yet closed
    ci_layout,      \* num_rows, max_width, max_height, totals, label_offset
    ci_canvas,      \* new_image: created flag and size
    ci_font,        \* font used for the labels
    ci_pastes,      \* new_image.paste calls so far, in call order
    ci_texts,       \* draw.text calls so far, in call order
    ci_saved,       \* TRUE once new_image.save has written the composite
    ci_raised,      \* exception that ended the call ("none" otherwise)
    ci_return       \* value returned by the call

ci_vars == <<ci_pc, ci_args, ci_images, ci_open, ci_layout, ci_canvas, ci_font,
             ci_pastes, ci_texts, ci_saved, ci_raised, ci_return>>

VARIABLES
    cp_pc,          \* "new", "ready" (Evaluation constructed), "called"
    cp_world,       \* the file tree below input_directory
    cp_directories, \* self.directories
    cp_pattern,     \* self.settings.pattern
    cp_out          \* outcome of collect_pattern_files

cp_vars == <<cp_pc, cp_world, cp_directories, cp_pattern, cp_out>>

VARIABLES
    so_pc,          \* "idle" or "sorted"
    so_stat,        \* what path.stat() gives for every path
    so_paths,       \* the argument `paths`
    so_out          \* outcome of sort_paths_by_creation_time

so_vars == <<so_pc, so_stat, so_paths, so_out>>

VARIABLES
    rc_pc,          \* position in the main block of run_capsule.py
    rc_input,       \* the data_process files below input_dir
    rc_tree,        \* the entries below output_dir: path and content
    rc_report,      \* the QualityControl object written, if any
    rc_processing   \* the Processing object written, if any

rc_vars == <<rc_pc, rc_input, rc_tree, rc_report, rc_processing>>

vars == <<ev_vars, ci_vars, cp_vars, so_vars, rc_vars>>

----------------------------------------------------------------------------
(* Bounds *)

MaxMetrics == 2

MaxImages == 3

MaxCols == 2

MaxLabels == 2

MaxPatterns == 2

MaxPaths == 3

----------------------------------------------------------------------------
(* Metric evaluator *)

Values == {1, 3, 5}

Thresholds == {1, 3, 5}

\* The operation argument: a str, a callable, or any other object.
StrOperations ==
    { [kind |-> "str", name |-> n] : n \in {"==", "!=", "<", "<=", ">", ">=", "~"} }

CallableOperations ==
    { [kind |-> "callable", name |-> n] : n \in {"within2", "never"} }

OtherOperations == { [kind |-> "other", name |-> "int"] }

Operations == StrOperations \cup CallableOperations \cup OtherOperations

MetricLists == UNION { [1..n -> Values] : n \in 0..MaxMetrics }

\* Evaluation.OPERATORS: name -> operator.eq, ne, lt, le, gt, ge
OPERATORS_keys == {"==", "!=", "<", "<=", ">", ">="}

\* OPERATORS with the operands of every comparison exchanged
OPERATORS_swapped(name, a, b) ==
    CASE name = "==" -> b = a
      [] name = "!=" -> b # a
      [] name = "<"  -> b < a
      [] name = "<=" -> b <= a
      [] name = ">"  -> b > a
      [] name = ">=" -> b >= a

OPERATORS(name, a, b) ==
    CASE name = "==" -> a = b
      [] name = "!=" -> a # b
      [] name = "<"  -> a < b
      [] name = "<=" -> a <= b
      [] name = ">"  -> a > b
      [] name = ">=" -> a >= b

\* A caller-supplied binary predicate over (value, threshold).
CallPredicate(name, a, b) ==
    CASE name = "within2" -> (a - b <= 2) /\ (b - a <= 2)
      [] name = "never"   -> FALSE

\* compare_func(value, threshold) for a resolved operation
compare_func(operation, value, threshold) ==
    IF operation.kind = "str"
    THEN OPERATORS(operation.name, value, threshold)
    ELSE CallPredicate(operation.name, value, threshold)

\* any(compare_func(value, threshold) for value in metrics.values()):
\* consumes the generator from index i until the first true element.
RECURSIVE AnyLoop(_, _, _, _, _)
AnyLoop(operation, metrics, threshold, i, applied) ==
    IF i > Len(metrics)
    THEN [raised |-> "none", result |-> FALSE, applied |-> applied]
    ELSE IF compare_func(operation, metrics[i], threshold)
         THEN [raised |-> "none", result |-> TRUE,
               applied |-> Append(applied, metrics[i])]
         ELSE AnyLoop(operation, metrics, threshold, i + 1,
                      Append(applied, metrics[i]))

\* all(compare_func(value, threshold) for value in metrics.values()):
\* consumes the generator from index i until the first false element.
RECURSIVE AllLoop(_, _, _, _, _)
AllLoop(operation, metrics, threshold, i, applied) ==
    IF i > Len(metrics)
    THEN [raised |-> "none", result |-> TRUE, applied |-> applied]
    ELSE IF ~compare_func(operation, metrics[i], threshold)
         THEN [raised |-> "none", result |-> FALSE,
               applied |-> Append(applied, metrics[i])]
         ELSE AllLoop(operation, metrics, threshold, i + 1,
                      Append(applied, metrics[i]))

Raise(exc) == [raised |-> exc, result |-> FALSE, applied |-> <<>>]

\* Evaluation.evaluate_metrics
evaluate_metrics_result(metrics, threshold, operation) ==
    IF operation.kind = "str"
    THEN IF operation.name \notin OPERATORS_keys
         THEN Raise("ValueError")
         ELSE AnyLoop(operation, metrics, threshold, 1, <<>>)
    ELSE IF operation.kind = "callable"
         THEN AnyLoop(operation, metrics, threshold, 1, <<>>)
         ELSE Raise("TypeError")

\* Evaluation.evaluate_metrics_all: an instance method (self) whose str branch
\* reads the undefined name `cls`, which raises NameError on evaluation.
evaluate_metrics_all_result(metrics, threshold, operation) ==
    IF operation.kind = "str"
    THEN Raise("NameError")
    ELSE IF operation.kind = "callable"
         THEN AllLoop(operation, metrics, threshold, 1, <<>>)
         ELSE Raise("TypeError")

\* The evaluators are pure and keep nothing between calls, so a behaviour holds
\* one call: ev_fn = "none" until it is made.
NoOutcome == [raised |-> "none", result |-> FALSE, applied |-> <<>>]

EvInit ==
    /\ ev_fn = "none"
    /\ ev_metrics = <<>>
    /\ ev_threshold = 3
    /\ ev_operation = [kind |-> "str", name |-> ">"]
    /\ ev_out = NoOutcome

evaluate_metrics ==
    \E metrics \in MetricLists, threshold \in Thresholds, operation \in Operations :
        /\ ev_fn = "none"
        /\ ev_fn' = "evaluate_metrics"
        /\ ev_metrics' = metrics
        /\ ev_threshold' = threshold
        /\ ev_operation' = operation
        /\ ev_out' = evaluate_metrics_result(metrics, threshold, operation)
        /\ UNCHANGED <<ci_vars, cp_vars, so_vars, rc_vars>>

evaluate_metrics_all ==
    \E metrics \in MetricLists, threshold \in Thresholds, operation \in Operations :
        /\ ev_fn = "none"
        /\ ev_fn' = "evaluate_metrics_all"
        /\ ev_metrics' = metrics
        /\ ev_threshold' = threshold
        /\ ev_operation' = operation
        /\ ev_out' = evaluate_metrics_all_result(metrics, threshold, operation)
        /\ UNCHANGED <<ci_vars, cp_vars, so_vars, rc_vars>>

EvNext == evaluate_metrics \/ evaluate_metrics_all

----------------------------------------------------------------------------
(* Image composer: combine_images *)

\* img.size of the source images: (width, height)
ImageSizes == { <<100, 50>>, <<80, 80>> }

ImageLists == UNION { [1..n -> ImageSizes] : n \in 0..MaxImages }

Spacings == {0, 10}

LabelWidths == {0, 200}

LabelTexts == {"p0", "p1"}

\* row_labels: None, or a list of labels
None == [none |-> TRUE, items |-> <<>>]

LabelLists ==
    {None} \cup { [none |-> FALSE, items |-> l] :
                    l \in UNION { [1..n -> LabelTexts] : n \in 0..MaxLabels } }

\* Truthy as `row_labels is not None`
Truthy_notNone(row_labels) == ~row_labels.none

\* truth value of `row_labels` in a condition
Truthy(row_labels) == ~row_labels.none /\ Len(row_labels.items) > 0

Variants == {"Evaluation", "utils"}

Fonts == {"truetype", "default"}

\* bbox[3] - bbox[1] of draw.textbbox((0, 0), text, font=font)
TextHeight(font, text) == IF font = "truetype" THEN 73 ELSE 11

SeqMax(s) == CHOOSE m \in { s[i] : i \in 1..Len(s) } : \A i \in 1..Len(s) : s[i] <= m

\* math.ceil(a / b) for b # 0
Ceil(a, b) == IF a % b = 0 THEN a \div b ELSE (a \div b) + 1

num_rows_of(num_images, num_columns) == Ceil(num_images, num_columns)

\* Layout with the row spacing left out of total_height
Layout_nospacing(images, num_columns, spacing, row_labels, label_width) ==
    LET num_images == Len(images)
        num_rows == num_rows_of(num_images, num_columns)
        max_width == SeqMax([i \in 1..Len(images) |-> images[i][1]])
        max_height == SeqMax([i \in 1..Len(images) |-> images[i][2]])
        base_width == (max_width * num_columns) + (spacing * (num_columns - 1))
        total_width == IF Truthy(row_labels)
                       THEN base_width + label_width + spacing
                       ELSE base_width
        total_height == max_height * num_rows
        label_offset == IF Truthy(row_labels) THEN label_width + spacing ELSE 0
    IN [num_rows |-> num_rows, max_width |-> max_width, max_height |-> max_height,
        total_width |-> total_width, total_height |-> total_height,
        label_offset |-> label_offset]

Layout(images, num_columns, spacing, row_labels, label_width) ==
    LET num_images == Len(images)
        num_rows == num_rows_of(num_images, num_columns)
        max_width == SeqMax([i \in 1..Len(images) |-> images[i][1]])
        max_height == SeqMax([i \in 1..Len(images) |-> images[i][2]])
        base_width == (max_width * num_columns) + (spacing * (num_columns - 1))
        total_width == IF Truthy(row_labels)
                       THEN base_width + label_width + spacing
                       ELSE base_width
        total_height == (max_height * num_rows) + (spacing * (num_rows - 1))
        label_offset == IF Truthy(row_labels) THEN label_width + spacing ELSE 0
    IN [num_rows |-> num_rows, max_width |-> max_width, max_height |-> max_height,
        total_width |-> total_width, total_height |-> total_height,
        label_offset |-> label_offset]

NoLayout == [num_rows |-> 0, max_width |-> 0, max_height |-> 0,
             total_width |-> 0, total_height |-> 0, label_offset |-> 0]

NoCanvas == [created |-> FALSE, width |-> 0, height |-> 0]

\* PasteOf filling the grid column by column
PasteOf_colmajor(idx, size, num_columns, spacing, layout) ==
    LET row == idx % num_columns
        col == idx \div num_columns
        x == layout.label_offset + col * (layout.max_width + spacing)
        y == row * (layout.max_height + spacing)
        x_center == x + ((layout.max_width - size[1]) \div 2)
        y_center == y + ((layout.max_height - size[2]) \div 2)
    IN [idx |-> idx, x |-> x_center, y |-> y_center, w |-> size[1], h |-> size[2]]

\* new_image.paste(img, (x_center, y_center)) for the image at index idx
PasteOf(idx, size, num_columns, spacing, layout) ==
    LET row == idx \div num_columns
        col == idx % num_columns
        x == layout.label_offset + col * (layout.max_width + spacing)
        y == row * (layout.max_height + spacing)
        x_center == x + ((layout.max_width - size[1]) \div 2)
        y_center == y + ((layout.max_height - size[2]) \div 2)
    IN [idx |-> idx, x |-> x_center, y |-> y_center, w |-> size[1], h |-> size[2]]

\* DrawsLabel without the first-column test
DrawsLabel_everycol(idx, num_columns, row_labels) ==
    /\ Truthy(row_labels)
    /\ (idx \div num_columns) < Len(row_labels.items)

\* the label condition of the paste loop
DrawsLabel(idx, num_columns, row_labels) ==
    /\ idx % num_columns = 0
    /\ Truthy(row_labels)
    /\ (idx \div num_columns) < Len(row_labels.items)

\* draw.text((spacing, text_y - text_height // 2), text, ...)
TextOf(idx, num_columns, spacing, row_labels, layout, font) ==
    LET row == idx \div num_columns
        y == row * (layout.max_height + spacing)
        text_y == y + (layout.max_height \div 2)
        text == row_labels.items[row + 1]
        text_height == TextHeight(font, text)
    IN [row |-> row, text |-> text, x |-> spacing,
        y |-> text_y - (text_height \div 2), text_height |-> text_height]

CiInit ==
    /\ ci_pc = "idle"
    /\ ci_args = [variant |-> "utils", image_paths |-> <<>>, num_columns |-> 2,
                  spacing |-> 10, row_labels |-> None, label_width |-> 200]
    /\ ci_images = <<>>
    /\ ci_open = {}
    /\ ci_layout = NoLayout
    /\ ci_canvas = NoCanvas
    /\ ci_font = "none"
    /\ ci_pastes = <<>>
    /\ ci_texts = <<>>
    /\ ci_saved = FALSE
    /\ ci_raised = "none"
    /\ ci_return = "none"

\* entry of combine_images with its arguments: paths of existing, decodable
\* images, a positive column count and a non-negative spacing
combine_images ==
    /\ ci_pc = "idle"
    /\ \E variant \in Variants, image_paths \in ImageLists,
          num_columns \in 1..MaxCols, spacing \in Spacings,
          row_labels \in LabelLists, label_width \in LabelWidths :
            ci_args' = [variant |-> variant, image_paths |-> image_paths,
                        num_columns |-> num_columns, spacing |-> spacing,
                        row_labels |-> row_labels, label_width |-> label_width]
    /\ ci_pc' = "open"
    /\ UNCHANGED <<ci_images, ci_open, ci_layout, ci_canvas, ci_font, ci_pastes,
                   ci_texts, ci_saved, ci_raised, ci_return>>
    /\ UNCHANGED <<ev_vars, cp_vars, so_vars, rc_vars>>

\* one element of [Image.open(path).convert("RGBA") for path in image_paths]
OpenImage ==
    /\ ci_pc = "open"
    /\ Len(ci_images) < Len(ci_args.image_paths)
    /\ ci_images' = Append(ci_images, ci_args.image_paths[Len(ci_images) + 1])
    /\ ci_open' = ci_open \cup {Len(ci_images)}
    /\ UNCHANGED <<ci_pc, ci_args, ci_layout, ci_canvas, ci_font, ci_pastes,
                   ci_texts, ci_saved, ci_raised, ci_return>>
    /\ UNCHANGED <<ev_vars, cp_vars, so_vars, rc_vars>>

\* num_rows, widths/heights, max and total dimensions, then Image.new
ComputeLayout ==
    /\ ci_pc = "open"
    /\ Len(ci_images) = Len(ci_args.image_paths)
    /\ IF Len(ci_images) = 0
       THEN \* widths, heights = zip(*()) has nothing to unpack
            /\ ci_pc' = "failed"
            /\ ci_raised' = "ValueError: not enough values to unpack (expected 2, got 0)"
            /\ UNCHANGED <<ci_layout, ci_canvas>>
       ELSE LET layout == Layout(ci_images, ci_args.num_columns, ci_args.spacing,
                                 ci_args.row_labels, ci_args.label_width)
            IN /\ ci_layout' = layout
               /\ ci_canvas' = [created |-> TRUE, width |-> layout.total_width,
                                height |-> layout.total_height]
               /\ ci_pc' = "font"
               /\ UNCHANGED ci_raised
    /\ UNCHANGED <<ci_args, ci_images, ci_open, ci_font, ci_pastes, ci_texts,
                   ci_saved, ci_return>>
    /\ UNCHANGED <<ev_vars, cp_vars, so_vars, rc_vars>>

\* ImageFont.truetype(font_path, size=100), or load_default() when it raises
LoadFont ==
    /\ ci_pc = "font"
    /\ \E font \in Fonts : ci_font' = font
    /\ ci_pc' = "paste"
    /\ UNCHANGED <<ci_args, ci_images, ci_open, ci_layout, ci_canvas, ci_pastes,
                   ci_texts, ci_saved, ci_raised, ci_return>>
    /\ UNCHANGED <<ev_vars, cp_vars, so_vars, rc_vars>>

\* one iteration of `for idx, img in enumerate(images)`
PasteImage ==
    /\ ci_pc = "paste"
    /\ Len(ci_pastes) < Len(ci_images)
    /\ LET idx == Len(ci_pastes)
       IN /\ ci_pastes' = Append(ci_pastes,
                                 PasteOf(idx, ci_images[idx + 1], ci_args.num_columns,
                                         ci_args.spacing, ci_layout))
          /\ ci_texts' = IF DrawsLabel(idx, ci_args.num_columns, ci_args.row_labels)
                         THEN Append(ci_texts,
                                     TextOf(idx, ci_args.num_columns, ci_args.spacing,
                                            ci_args.row_labels, ci_layout, ci_font))
                         ELSE ci_texts
    /\ UNCHANGED <<ci_pc, ci_args, ci_images, ci_open, ci_layout, ci_canvas, ci_font,
                   ci_saved, ci_raised, ci_return>>
    /\ UNCHANGED <<ev_vars, cp_vars, so_vars, rc_vars>>

\* new_image.save(...) writes the composite, then every image is closed
SaveAndClose ==
    /\ ci_pc = "paste"
    /\ Len(ci_pastes) = Len(ci_images)
    /\ ci_saved' = TRUE
    /\ ci_open' = {}
    /\ ci_return' = IF ci_args.variant = "Evaluation" THEN "path" ELSE "None"
    /\ ci_pc' = "done"
    /\ UNCHANGED <<ci_args, ci_images, ci_layout, ci_canvas, ci_font, ci_pastes,
                   ci_texts, ci_raised>>
    /\ UNCHANGED <<ev_vars, cp_vars, so_vars, rc_vars>>

\* new_image.save(...) raises (target not writable): the close loop is skipped
SaveFails ==
    /\ ci_pc = "paste"
    /\ Len(ci_pastes) = Len(ci_images)
    /\ ci_raised' = "OSError: cannot write the composite"
    /\ ci_pc' = "failed"
    /\ UNCHANGED <<ci_args, ci_images, ci_open, ci_layout, ci_canvas, ci_font,
                   ci_pastes, ci_texts, ci_saved, ci_return>>
    /\ UNCHANGED <<ev_vars, cp_vars, so_vars, rc_vars>>

CiNext ==
    \/ combine_images
    \/ OpenImage
    \/ ComputeLayout
    \/ LoadFont
    \/ PasteImage
    \/ SaveAndClose
    \/ SaveFails

----------------------------------------------------------------------------
(* Directory scan: Evaluation._get_directories and collect_pattern_files *)

\* A path is a sequence of components, a component a sequence of characters.
input_dir == << <<"d">> >>

p0 == <<"p", "0">>

p1 == <<"p", "1">>

mc == <<"m", "c">>

avg == <<"a", "v", "g">>

max == <<"m", "a", "x">>

log == <<"l", "o", "g">>

\* Every entry the tree below input_directory may hold, in walk order.
AllEntries ==
    << [path |-> input_dir \o <<p0>>,          is_file |-> FALSE],
       [path |-> input_dir \o <<p0, mc>>,      is_file |-> FALSE],
       [path |-> input_dir \o <<p0, mc, avg>>, is_file |-> TRUE],
       [path |-> input_dir \o <<p0, mc, max>>, is_file |-> TRUE],
       [path |-> input_dir \o <<p0, mc, log>>, is_file |-> TRUE],
       [path |-> input_dir \o <<p1>>,          is_file |-> FALSE],
       [path |-> input_dir \o <<p1, mc>>,      is_file |-> FALSE],
       [path |-> input_dir \o <<p1, mc, avg>>, is_file |-> TRUE] >>

IsPrefix(a, b) == Len(a) <= Len(b) /\ SubSeq(b, 1, Len(a)) = a

\* an entry exists only together with its parent directory
Closed(present) ==
    \A i \in present : \A j \in 1..Len(AllEntries) :
        (/\ Len(AllEntries[j].path) < Len(AllEntries[i].path)
         /\ IsPrefix(AllEntries[j].path, AllEntries[i].path)) => j \in present

\* rev: the order in which the file system enumerates entries
Worlds ==
    { [present |-> pr, rev |-> r] :
        pr \in { q \in SUBSET (1..Len(AllEntries)) : Closed(q) }, r \in BOOLEAN }

Patterns == { avg, max, <<"m">> }

PatternLists == UNION { [1..n -> Patterns] : n \in 0..MaxPatterns }

Reverse(s) == [i \in 1..Len(s) |-> s[Len(s) + 1 - i]]

\* the entries of the tree in enumeration order
Walk(world) ==
    LET idx == IF world.rev THEN Reverse([i \in 1..Len(AllEntries) |-> i])
                            ELSE [i \in 1..Len(AllEntries) |-> i]
        RECURSIVE Pick(_)
        Pick(k) == IF k > Len(idx) THEN <<>>
                   ELSE IF idx[k] \in world.present
                        THEN <<AllEntries[idx[k]]>> \o Pick(k + 1)
                        ELSE Pick(k + 1)
    IN Pick(1)

\* directory.glob with `depth` wildcard components ("*" or "*/*")
glob(world, directory, depth) ==
    LET Test(e) == IsPrefix(directory, e.path) /\ Len(e.path) = Len(directory) + depth
    IN SelectSeq(Walk(world), Test)

\* directory.rglob("*"): every entry below directory
rglob(world, directory) ==
    LET Test(e) == IsPrefix(directory, e.path) /\ Len(e.path) > Len(directory)
    IN SelectSeq(Walk(world), Test)

\* str(path): the components joined by "/"
RECURSIVE str(_)
str(path) ==
    IF Len(path) = 0 THEN <<>>
    ELSE IF Len(path) = 1 THEN path[1]
         ELSE path[1] \o <<"/">> \o str(Tail(path))

\* pattern in s
Contains(pattern, s) ==
    \E i \in 1..(Len(s) + 1) :
        /\ i + Len(pattern) - 1 <= Len(s)
        /\ SubSeq(s, i, i + Len(pattern) - 1) = pattern

\* directory.parent.name
parent_name(path) == IF Len(path) >= 2 THEN path[Len(path) - 1] ELSE <<>>

Paths(entries) == [i \in 1..Len(entries) |-> entries[i].path]

\* Evaluation._get_directories
get_directories(world) ==
    IF Len(glob(world, input_dir, 1)) = 1
    THEN Paths(glob(world, input_dir, 2))
    ELSE Paths(rglob(world, input_dir))

\* [i for i in directory.rglob("*") if pattern in str(i) and i.is_file()]
pattern_matches(world, directory, pattern) ==
    LET Test(e) == Contains(pattern, str(e.path)) /\ e.is_file
    IN Paths(SelectSeq(rglob(world, directory), Test))

\* the inner loop `for pattern in self.settings.pattern`
RECURSIVE PatternLoop(_, _, _, _)
PatternLoop(world, directory, patterns, matched_files) ==
    IF patterns = <<>> THEN matched_files
    ELSE PatternLoop(world, directory, Tail(patterns),
                     matched_files \o pattern_matches(world, directory, Head(patterns)))

\* the outer loop `for directory in self.directories`
RECURSIVE DirectoryLoop(_, _, _, _)
DirectoryLoop(world, directories, patterns, acc) ==
    IF directories = <<>> THEN acc
    ELSE DirectoryLoop(world, Tail(directories), patterns,
            [raised |-> "none",
             row_labels |-> Append(acc.row_labels, parent_name(Head(directories))),
             matched_files |-> PatternLoop(world, Head(directories), patterns,
                                           acc.matched_files),
             scanned |-> Append(acc.scanned, Head(directories))])

NoCollect == [raised |-> "none", row_labels |-> <<>>, matched_files |-> <<>>,
              scanned |-> <<>>]

\* Evaluation.collect_pattern_files
collect_pattern_files_result(world, directories, patterns) ==
    IF directories = <<>>
    THEN [NoCollect EXCEPT !.raised = "ValueError: No directories provided."]
    ELSE IF patterns = <<>>
         THEN [NoCollect EXCEPT !.raised = "ValueError: No pattern provided."]
         ELSE DirectoryLoop(world, directories, patterns, NoCollect)

\* write_event_probability: the loop `for label, file in zip(row_labels,
\* matched_files)` filling epilepsy_metric_summary[label] from `file`; the
\* summary is given as label -> file whose value the entry holds
RECURSIVE ZipLoop(_, _, _, _)
ZipLoop(row_labels, matched_files, i, summary) ==
    IF i > Len(row_labels) \/ i > Len(matched_files) THEN summary
    ELSE ZipLoop(row_labels, matched_files, i + 1,
                 [l \in (DOMAIN summary) \cup {row_labels[i]} |->
                     IF l = row_labels[i] THEN matched_files[i] ELSE summary[l]])

epilepsy_metric_summary(row_labels, matched_files) ==
    ZipLoop(row_labels, matched_files, 1, << >>)

CpInit ==
    /\ cp_pc = "new"
    /\ cp_world = [present |-> {}, rev |-> FALSE]
    /\ cp_directories = <<>>
    /\ cp_pattern = <<>>
    /\ cp_out = NoCollect

\* Evaluation.__init__ / initalize_evaluation
Evaluation_init ==
    /\ cp_pc = "new"
    /\ \E world \in Worlds, pattern \in PatternLists :
        /\ cp_world' = world
        /\ cp_pattern' = pattern
        /\ cp_directories' = get_directories(world)
    /\ cp_pc' = "ready"
    /\ UNCHANGED cp_out
    /\ UNCHANGED <<ev_vars, ci_vars, so_vars, rc_vars>>

collect_pattern_files ==
    /\ cp_pc = "ready"
    /\ cp_out' = collect_pattern_files_result(cp_world, cp_directories, cp_pattern)
    /\ cp_pc' = "called"
    /\ UNCHANGED <<cp_world, cp_directories, cp_pattern>>
    /\ UNCHANGED <<ev_vars, ci_vars, so_vars, rc_vars>>

CpNext == Evaluation_init \/ collect_pattern_files

----------------------------------------------------------------------------
(* utils.sort_paths_by_creation_time *)

PathNames == {"a", "b", "c"}

Timestamps == {0, 1, 2}

\* path.stat(): raises OSError, or gives st_mtime and, where the platform has
\* it, st_birthtime
StatResults ==
    { [ok |-> FALSE, has_birthtime |-> FALSE, st_birthtime |-> 0, st_mtime |-> 0] }
    \cup { [ok |-> TRUE, has_birthtime |-> TRUE, st_birthtime |-> b, st_mtime |-> 2] :
             b \in Timestamps }
    \cup { [ok |-> TRUE, has_birthtime |-> FALSE, st_birthtime |-> 0, st_mtime |-> m] :
             m \in Timestamps }

PathLists == UNION { [1..n -> PathNames] : n \in 0..MaxPaths }

\* get_creation_time with a sentinel that sorts failed paths to the end
get_creation_time_last(stat, path) ==
    IF stat[path].ok
    THEN IF stat[path].has_birthtime THEN stat[path].st_birthtime
                                     ELSE stat[path].st_mtime
    ELSE 9

\* get_creation_time: the sort key of one path
get_creation_time(stat, path) ==
    IF stat[path].ok
    THEN IF stat[path].has_birthtime THEN stat[path].st_birthtime
                                     ELSE stat[path].st_mtime
    ELSE 0

\* the paths whose stat failed, in the order the keys are computed: one
\* print(f"Error accessing {path}: {e}") each
RECURSIVE Reported(_, _)
Reported(stat, paths) ==
    IF paths = <<>> THEN <<>>
    ELSE IF stat[Head(paths)].ok THEN Reported(stat, Tail(paths))
         ELSE <<Head(paths)>> \o Reported(stat, Tail(paths))

\* insert index i behind every index whose key is not larger (stable)
RECURSIVE InsertByKey(_, _, _)
InsertByKey(keys, order, i) ==
    IF order = <<>> THEN <<i>>
    ELSE IF keys[Head(order)] <= keys[i]
         THEN <<Head(order)>> \o InsertByKey(keys, Tail(order), i)
         ELSE <<i>> \o order

\* sorted(..., key=...): the input positions in sorted order
RECURSIVE SortedOrder(_, _)
SortedOrder(keys, n) ==
    IF n = 0 THEN <<>>
    ELSE InsertByKey(keys, SortedOrder(keys, n - 1), n)

\* sort_paths_by_creation_time(paths)
sort_paths_by_creation_time_result(stat, paths) ==
    LET keys == [i \in 1..Len(paths) |-> get_creation_time(stat, paths[i])]
        order == SortedOrder(keys, Len(paths))
    IN [raised |-> "none",
        keys |-> keys,
        order |-> order,
        sorted |-> [k \in 1..Len(paths) |-> paths[order[k]]],
        reported |-> Reported(stat, paths)]

NoSort == [raised |-> "none", keys |-> <<>>, order |-> <<>>, sorted |-> <<>>,
           reported |-> <<>>]

SoInit ==
    /\ so_pc = "idle"
    /\ so_stat \in [PathNames -> StatResults]
    /\ so_paths = <<>>
    /\ so_out = NoSort

sort_paths_by_creation_time ==
    /\ so_pc = "idle"
    /\ \E paths \in PathLists :
        /\ so_paths' = paths
        /\ so_out' = sort_paths_by_creation_time_result(so_stat, paths)
    /\ so_pc' = "sorted"
    /\ UNCHANGED so_stat
    /\ UNCHANGED <<ev_vars, ci_vars, cp_vars, rc_vars>>

SoNext == sort_paths_by_creation_time

----------------------------------------------------------------------------
(* run_capsule.py: the three writers and write_core_metadata *)

\* Here a path component is a sequence of name fragments, so that
\* `"evaluation" in str(file)` and rglob("*evaluation*") are substring tests.
output_dir == << <<"results">> >>

data_dir == << <<"data">> >>

quality_evaluation_json == <<"quality_", "evaluation", ".json">>

data_process_json == <<"data_process", ".json">>

Writers == {"write_fov_summary", "write_interictal_summary", "write_event_probability"}

\* every writer putting its files straight into output_dir
output_directory_flat(writer) == output_dir

\* EvaluationSettings.output_directory of each writer
output_directory(writer) ==
    CASE writer = "write_fov_summary" -> output_dir \o << <<"registration_summary">> >>
      [] writer = "write_interictal_summary" -> output_dir \o << <<"interictal_summary">> >>
      [] writer = "write_event_probability" -> output_dir \o << <<"epilepsy_probability">> >>

\* EvaluationSettings.evaluations_name of each writer
evaluations_name(writer) ==
    CASE writer = "write_fov_summary" -> "Registration Summary"
      [] writer = "write_interictal_summary" -> "Interictal Event Images"
      [] writer = "write_event_probability" -> "Epilepsy Probability"

\* the composite image a writer saves through combine_images, if any
image_output_name(writer) ==
    CASE writer = "write_fov_summary" -> << <<"fov_summary", ".png">> >>
      [] writer = "write_interictal_summary" -> << <<"interictal_summary", ".png">> >>
      [] writer = "write_event_probability" -> << >>

Content(type, name, value, items) ==
    [type |-> type, name |-> name, value |-> value, items |-> items]

Entry(path, content) == [path |-> path, content |-> content]

\* open(path, "w") / mkdir(exist_ok=True): the entry at path is replaced
WriteEntry(tree, path, content) ==
    { e \in tree : e.path # path } \cup { Entry(path, content) }

\* the metric value of each writer's evaluation
MetricValues(writer) ==
    IF writer = "write_event_probability" THEN {"True", "False"} ELSE {"CheckboxMetric"}

\* Evaluation(settings) makes the output directory
MadeDirectory(tree, writer) ==
    WriteEntry(tree, output_directory(writer), Content("dir", "", "", <<>>))

\* combine_images saves the composite into the output directory
SavedImage(tree, writer) ==
    IF image_output_name(writer) = << >> THEN tree
    ELSE WriteEntry(tree, output_directory(writer) \o image_output_name(writer),
                    Content("png", "", "", <<>>))

\* Evaluation.write_evaluation_to_json
write_evaluation_to_json(tree, writer, value) ==
    WriteEntry(tree, output_directory(writer) \o <<quality_evaluation_json>>,
               Content("evaluation", evaluations_name(writer), value, <<>>))

\* a writer that runs to its end
Writer(writer, next) ==
    /\ rc_pc = writer
    /\ \E value \in MetricValues(writer) :
          rc_tree' = write_evaluation_to_json(
                        SavedImage(MadeDirectory(rc_tree, writer), writer), writer, value)
    /\ rc_pc' = next
    /\ UNCHANGED <<rc_input, rc_report, rc_processing>>
    /\ UNCHANGED <<ev_vars, ci_vars, cp_vars, so_vars>>

write_fov_summary == Writer("write_fov_summary", "write_interictal_summary")

write_interictal_summary == Writer("write_interictal_summary", "write_event_probability")

write_event_probability == Writer("write_event_probability", "write_core_metadata_evaluation")

\* collect_pattern_files, combine_images or json.load raises inside a writer:
\* the script ends with the output directory made and nothing written to it
WriterRaises ==
    /\ rc_pc \in Writers
    /\ rc_tree' = MadeDirectory(rc_tree, rc_pc)
    /\ rc_pc' = "failed"
    /\ UNCHANGED <<rc_input, rc_report, rc_processing>>
    /\ UNCHANGED <<ev_vars, ci_vars, cp_vars, so_vars>>

\* name of the last component
name(path) == path[Len(path)]

\* root.rglob(f"*{data_type}*"): the entries whose name holds data_type
rglob_name(tree, data_type) ==
    { e \in tree : Contains(<<data_type>>, name(e.path)) }

\* the orders in which rglob may yield a set of entries
Enumerations(entries) ==
    { f \in [1..Cardinality(entries) -> entries] :
        \A i, j \in 1..Cardinality(entries) : i # j => f[i] # f[j] }

\* the loop `for file in file_path` of write_core_metadata
RECURSIVE metadata_of(_)
metadata_of(files) ==
    IF files = <<>> THEN <<>>
    ELSE IF Contains(<<"evaluation">>, str(Head(files).path))
         THEN <<[kind |-> "QCEvaluation", data |-> Head(files).content]>>
              \o metadata_of(Tail(files))
         ELSE IF Contains(<<"data_process">>, str(Head(files).path))
              THEN <<[kind |-> "DataProcess", data |-> Head(files).content]>>
                   \o metadata_of(Tail(files))
              ELSE metadata_of(Tail(files))

NoObject == [written |-> FALSE, items |-> <<>>]

\* write_core_metadata(input_dir, output_dir, data_type=data_type)
write_core_metadata(data_type, here, next) ==
    /\ rc_pc = here
    /\ \E files \in Enumerations(IF Contains(<<"evaluation">>, <<data_type>>)
                                  THEN rglob_name(rc_tree, data_type)
                                  ELSE rglob_name(rc_input, data_type)) :
        LET metadata == metadata_of(files)
        IN IF Contains(<<"evaluation">>, <<data_type>>)
           THEN /\ rc_report' = [written |-> TRUE, items |-> metadata]
                /\ rc_tree' = WriteEntry(rc_tree, output_dir \o << <<"quality_control", ".json">> >>,
                                         Content("quality_control", "", "", metadata))
                /\ UNCHANGED rc_processing
           ELSE /\ rc_processing' = [written |-> TRUE, items |-> metadata]
                /\ rc_tree' = WriteEntry(rc_tree, output_dir \o << <<"processing", ".json">> >>,
                                         Content("processing", "", "", metadata))
                /\ UNCHANGED rc_report
    /\ rc_pc' = next
    /\ UNCHANGED rc_input
    /\ UNCHANGED <<ev_vars, ci_vars, cp_vars, so_vars>>

write_core_metadata_evaluation ==
    write_core_metadata("evaluation", "write_core_metadata_evaluation",
                        "write_core_metadata_data_process")

write_core_metadata_data_process ==
    write_core_metadata("data_process", "write_core_metadata_data_process", "done")

\* the data_process.json files the upstream capsules may have left
InputFiles ==
    { Entry(data_dir \o << <<pl>>, data_process_json >>,
            Content("data_process", pl, "", <<>>)) : pl \in {"plane0", "plane1", "plane2"} }

RcIdle ==
    /\ rc_pc = "idle"
    /\ rc_input = {}
    /\ rc_tree = {}
    /\ rc_report = NoObject
    /\ rc_processing = NoObject

\* records an earlier run of the script may have left in the results directory
StaleRecords ==
    { Entry(output_directory(w) \o <<quality_evaluation_json>>,
            Content("evaluation", evaluations_name(w), "stale", <<>>)) : w \in Writers }

\* start of the main block: the results directory is empty or holds the
\* records of an earlier run
RcInit ==
    /\ rc_pc = "write_fov_summary"
    /\ rc_input \in SUBSET InputFiles
    /\ rc_tree \in SUBSET StaleRecords
    /\ rc_report = NoObject
    /\ rc_processing = NoObject

RcNext ==
    \/ write_fov_summary
    \/ write_interictal_summary
    \/ write_event_probability
    \/ WriterRaises
    \/ write_core_metadata_evaluation
    \/ write_core_metadata_data_process

----------------------------------------------------------------------------
(* Specifications *)

\* the file system the sort runs on is fixed before the call
SoIdle ==
    /\ so_pc = "idle"
    /\ so_stat = [p \in PathNames |->
                    [ok |-> TRUE, has_birthtime |-> FALSE, st_birthtime |-> 0,
                     st_mtime |-> 1]]
    /\ so_paths = <<>>
    /\ so_out = NoSort

Init == EvInit /\ CiInit /\ CpInit /\ SoIdle /\ RcIdle

InitSort == EvInit /\ CiInit /\ CpInit /\ SoInit /\ RcIdle

InitRun == EvInit /\ CiInit /\ CpInit /\ SoIdle /\ RcInit

SpecRun == InitRun /\ [][RcNext]_vars

SpecSort == InitSort /\ [][SoNext]_vars

SpecCollect == Init /\ [][CpNext]_vars

SpecEval == Init /\ [][EvNext]_vars

SpecCombine == Init /\ [][CiNext]_vars

----------------------------------------------------------------------------
(* Properties of the metric evaluator *)

RecognizedNames == {"==", "!=", "<", "<=", ">", ">="}

\* the comparison an operator name stands for, value on the left
Satisfies(operation, value, threshold) ==
    IF operation.kind = "callable"
    THEN CallPredicate(operation.name, value, threshold)
    ELSE \/ operation.name = "==" /\ value = threshold
         \/ operation.name = "!=" /\ ~(value = threshold)
         \/ operation.name = "<"  /\ threshold > value
         \/ operation.name = "<=" /\ ~(value > threshold)
         \/ operation.name = ">"  /\ value > threshold
         \/ operation.name = ">=" /\ ~(threshold > value)

UsableOperation(operation) ==
    \/ operation.kind = "callable"
    \/ operation.kind = "str" /\ operation.name \in RecognizedNames

\* C1: evaluate_metrics_all returns true iff every value of the metric map
\* satisfies operation(value, threshold), for the six operator names and for a
\* caller-supplied predicate; on an empty map it returns true.
C1_AllIffEvery ==
    (ev_fn = "evaluate_metrics_all" /\ UsableOperation(ev_operation)) =>
        /\ ev_out.raised = "none"
        /\ ev_out.result =
             (\A i \in 1..Len(ev_metrics) :
                 Satisfies(ev_operation, ev_metrics[i], ev_threshold))
        /\ (ev_metrics = <<>> => ev_out.result = TRUE)

\* C2: evaluate_metrics returns true iff at least one value of the metric map
\* satisfies operation(value, threshold), every operator name meaning the
\* comparison of that name with the value on the left and the threshold on the
\* right; on an empty map it returns false.
C2_AnyIffSome ==
    (ev_fn = "evaluate_metrics" /\ UsableOperation(ev_operation)) =>
        /\ ev_out.raised = "none"
        /\ ev_out.result =
             (\E i \in 1..Len(ev_metrics) :
                 Satisfies(ev_operation, ev_metrics[i], ev_threshold))
        /\ (ev_metrics = <<>> => ev_out.result = FALSE)

\* evaluate_metrics({"a": 5, "b": 1}, 1, "<=") returned True: only the second
\* value satisfies value <= threshold.
C2_Witness ==
    /\ ev_fn = "evaluate_metrics"
    /\ ev_metrics = <<5, 1>>
    /\ ev_threshold = 1
    /\ ev_operation = [kind |-> "str", name |-> "<="]
    /\ ev_out.raised = "none"
    /\ ev_out.result = TRUE

\* C3: in both evaluators an unrecognized operator name raises ValueError and
\* an operation that is neither str nor callable raises TypeError, in both
\* cases before the comparison is applied to any metric value.
C3_OperatorErrors ==
    ev_fn \in {"evaluate_metrics", "evaluate_metrics_all"} =>
        /\ (ev_operation.kind = "str" /\ ev_operation.name \notin RecognizedNames)
              => (ev_out.raised = "ValueError" /\ ev_out.applied = <<>>)
        /\ (ev_operation.kind \notin {"str", "callable"})
              => (ev_out.raised = "TypeError" /\ ev_out.applied = <<>>)

----------------------------------------------------------------------------
(* Properties of combine_images *)

imageCount == Len(ci_args.image_paths)

numColumns == ci_args.num_columns

spacing_ == ci_args.spacing

ImgWidth(i) == ci_args.image_paths[i + 1][1]

ImgHeight(i) == ci_args.image_paths[i + 1][2]

\* the contract's inputs: a non-empty image list and numColumns >= 1
ContractInputs == imageCount >= 1 /\ numColumns >= 1 /\ spacing_ >= 0

cellWidth ==
    CHOOSE m \in { ImgWidth(i) : i \in 0..(imageCount - 1) } :
        \A i \in 0..(imageCount - 1) : ImgWidth(i) <= m

cellHeight ==
    CHOOSE m \in { ImgHeight(i) : i \in 0..(imageCount - 1) } :
        \A i \in 0..(imageCount - 1) : ImgHeight(i) <= m

\* ceil(imageCount / numColumns): the least n with n * numColumns >= imageCount
numRows ==
    CHOOSE n \in 0..imageCount :
        /\ n * numColumns >= imageCount
        /\ \A k \in 0..(n - 1) : k * numColumns < imageCount

LabelsNonEmpty == ~ci_args.row_labels.none /\ ci_args.row_labels.items # <<>>

gutter == IF LabelsNonEmpty THEN ci_args.label_width + spacing_ ELSE 0

CellX(i, g) == g + (i % numColumns) * (cellWidth + spacing_)

CellY(i) == (i \div numColumns) * (cellHeight + spacing_)

\* where the image at flat index i is pasted when the gutter is g
ExpectedPaste(i, g) ==
    [idx |-> i,
     x |-> CellX(i, g) + ((cellWidth - ImgWidth(i)) \div 2),
     y |-> CellY(i) + ((cellHeight - ImgHeight(i)) \div 2),
     w |-> ImgWidth(i), h |-> ImgHeight(i)]

AfterCanvas == ci_pc \in {"font", "paste", "done"} \/ (ci_pc = "failed" /\ ci_pastes # <<>>)

\* C4: for a non-empty image list, numColumns >= 1 and spacing >= 0 the canvas
\* is gutter + cellWidth*numColumns + spacing*(numColumns-1) wide and
\* cellHeight*numRows + spacing*(numRows-1) high, the gutter being
\* label_width + spacing for a non-empty label list and 0 otherwise; an empty
\* label list gives the canvas size and image positions of row_labels = None.
C4_CanvasSize ==
    (ContractInputs /\ AfterCanvas) =>
        /\ ci_canvas.created
        /\ ci_canvas.width =
              gutter + cellWidth * numColumns + spacing_ * (numColumns - 1)
        /\ ci_canvas.height = cellHeight * numRows + spacing_ * (numRows - 1)
        /\ (ci_args.row_labels.none \/ ci_args.row_labels.items = <<>>) =>
              /\ ci_canvas.width = cellWidth * numColumns + spacing_ * (numColumns - 1)
              /\ \A k \in 1..Len(ci_pastes) : ci_pastes[k] = ExpectedPaste(k - 1, 0)
              /\ ci_texts = <<>>

\* three images in two columns with an empty (not None) label list, all pasted
C4_Witness ==
    /\ ci_pc = "done"
    /\ ci_args.image_paths = << <<100, 50>>, <<80, 80>>, <<100, 50>> >>
    /\ ci_args.num_columns = 2
    /\ ci_args.spacing = 10
    /\ ci_args.label_width = 200
    /\ ~ci_args.row_labels.none
    /\ ci_args.row_labels.items = <<>>
    /\ ci_canvas = [created |-> TRUE, width |-> 210, height |-> 170]

\* C5: the image at flat index i is pasted into the cell at row i div
\* numColumns and column i mod numColumns, centred with floor division; every
\* image is pasted exactly once and in list order; for [A(100x50), B(80x80)],
\* two columns, spacing 10 and no labels, A goes to (0,15) and B to (120,0).
C5_PastePositions ==
    (ContractInputs /\ AfterCanvas) =>
        /\ Len(ci_pastes) <= imageCount
        /\ \A k \in 1..Len(ci_pastes) : ci_pastes[k] = ExpectedPaste(k - 1, gutter)
        /\ (ci_pc = "done" => Len(ci_pastes) = imageCount)
        /\ (/\ ci_pc = "done"
            /\ ci_args.image_paths = << <<100, 50>>, <<80, 80>> >>
            /\ numColumns = 2 /\ spacing_ = 10 /\ ci_args.row_labels.none)
           => /\ ci_pastes[1].x = 0 /\ ci_pastes[1].y = 15
              /\ ci_pastes[2].x = 120 /\ ci_pastes[2].y = 0

\* the scenario [A(100x50), B(80x80)], two columns, spacing 10, no labels
C5_Witness ==
    /\ ci_pc = "done"
    /\ ci_args.image_paths = << <<100, 50>>, <<80, 80>> >>
    /\ ci_args.num_columns = 2
    /\ ci_args.spacing = 10
    /\ ci_args.row_labels.none
    /\ Len(ci_pastes) = 2
    /\ ci_pastes[1].y = 15
    /\ ci_pastes[2].x = 120

Inside(ax, ay, aw, ah, bx, by, bw, bh) ==
    /\ bx <= ax /\ ax + aw <= bx + bw
    /\ by <= ay /\ ay + ah <= by + bh

Disjoint(ax, ay, aw, ah, bx, by, bw, bh) ==
    \/ ax + aw <= bx \/ bx + bw <= ax
    \/ ay + ah <= by \/ by + bh <= ay

\* C6: every image is pasted unscaled into a rectangle inside its own grid
\* cell, every cell lies inside the canvas and the cells of two different
\* images never overlap, so no image is cropped or overwritten by another.
C6_NoCropNoOverlap ==
    (ContractInputs /\ AfterCanvas) =>
        /\ \A k \in 1..Len(ci_pastes) :
              LET i == ci_pastes[k].idx IN
              /\ ci_pastes[k].w = ImgWidth(i) /\ ci_pastes[k].h = ImgHeight(i)
              /\ Inside(ci_pastes[k].x, ci_pastes[k].y, ci_pastes[k].w, ci_pastes[k].h,
                        CellX(i, gutter), CellY(i), cellWidth, cellHeight)
              /\ Inside(ci_pastes[k].x, ci_pastes[k].y, ci_pastes[k].w, ci_pastes[k].h,
                        0, 0, ci_canvas.width, ci_canvas.height)
        /\ \A i \in 0..(imageCount - 1) :
              Inside(CellX(i, gutter), CellY(i), cellWidth, cellHeight,
                     0, 0, ci_canvas.width, ci_canvas.height)
        /\ \A k, j \in 1..Len(ci_pastes) :
              k # j =>
                /\ Disjoint(CellX(k - 1, gutter), CellY(k - 1), cellWidth, cellHeight,
                            CellX(j - 1, gutter), CellY(j - 1), cellWidth, cellHeight)
                /\ Disjoint(ci_pastes[k].x, ci_pastes[k].y, ci_pastes[k].w, ci_pastes[k].h,
                            ci_pastes[j].x, ci_pastes[j].y, ci_pastes[j].w, ci_pastes[j].h)

\* three images of differing sizes in two rows, labels present, all pasted
C6_Witness ==
    /\ ci_pc = "done"
    /\ ci_args.image_paths = << <<80, 80>>, <<100, 50>>, <<100, 50>> >>
    /\ ci_args.num_columns = 2
    /\ ci_args.spacing = 10
    /\ LabelsNonEmpty
    /\ Len(ci_pastes) = 3

\* C7: whenever a call that opened at least one source image has ended,
\* normally or with an error, every image it opened has been closed.
C7_AllReleased ==
    (ci_pc \in {"done", "failed"} /\ Len(ci_images) >= 1) => ci_open = {}

\* C8: a call with an empty image list is rejected with the "no images
\* supplied" input-validation error, and no composite image is saved.
C8_EmptyRejected ==
    (ci_pc # "idle" /\ ci_args.image_paths = <<>>) =>
        /\ ~ci_saved
        /\ ci_pc \in {"open", "failed"}
        /\ ci_pc = "failed" => ci_raised = "ValueError: no images supplied"

TextsOfRow(r) == { k \in 1..Len(ci_texts) : ci_texts[k].row = r }

\* C10: a label is drawn for row r iff row_labels is non-empty, r <
\* len(row_labels) and r < numRows; exactly once, when the row's column-0
\* image is processed; it is rowLabels[r], anchored at x = spacing with its
\* vertical centre at y_row + cellHeight div 2.
C10_RowLabels ==
    (ContractInputs /\ AfterCanvas) =>
        /\ \A r \in 0..(imageCount + MaxLabels) :
              Cardinality(TextsOfRow(r)) =
                IF /\ LabelsNonEmpty
                   /\ r < Len(ci_args.row_labels.items)
                   /\ r < numRows
                   /\ Len(ci_pastes) > r * numColumns
                THEN 1 ELSE 0
        /\ \A k \in 1..Len(ci_texts) :
              LET t == ci_texts[k] IN
              /\ t.row \in 0..(numRows - 1)
              /\ t.text = ci_args.row_labels.items[t.row + 1]
              /\ t.x = spacing_
              /\ t.y + (t.text_height \div 2)
                   = t.row * (cellHeight + spacing_) + (cellHeight \div 2)

\* two grid rows but a single label: only row 0 received text
C10_Witness ==
    /\ ci_pc = "done"
    /\ Len(ci_args.image_paths) = 3
    /\ ci_args.num_columns = 2
    /\ ~ci_args.row_labels.none
    /\ Len(ci_args.row_labels.items) = 1
    /\ Len(ci_texts) = 1
    /\ ci_texts[1].row = 0

----------------------------------------------------------------------------
(* Properties of collect_pattern_files *)

\* no file below any of self.directories has a pattern in its path string
NoFileMatches ==
    ~\E d \in 1..Len(cp_directories), q \in 1..Len(cp_pattern), k \in cp_world.present :
        /\ AllEntries[k].is_file
        /\ IsPrefix(cp_directories[d], AllEntries[k].path)
        /\ Len(AllEntries[k].path) > Len(cp_directories[d])
        /\ Contains(cp_pattern[q], str(AllEntries[k].path))

\* C9: collect_pattern_files raises an input-validation error, instead of
\* returning, when the directory list is empty, when the pattern list is empty
\* and when no file matches; the first two before any directory is scanned.
C9_ValidationErrors ==
    cp_pc = "called" =>
        /\ (cp_directories = <<>> \/ cp_pattern = <<>>)
              => (cp_out.raised # "none" /\ cp_out.scanned = <<>>)
        /\ NoFileMatches => cp_out.raised # "none"

----------------------------------------------------------------------------
(* Properties of sort_paths_by_creation_time *)

\* birth time when available, otherwise modification time
Timestamp(path) ==
    IF so_stat[path].has_birthtime THEN so_stat[path].st_birthtime
                                   ELSE so_stat[path].st_mtime

\* the key the claim gives a path: 0 for a failed stat
ClaimedKey(path) == IF so_stat[path].ok THEN Timestamp(path) ELSE 0

Count(seq, x) == Cardinality({ i \in 1..Len(seq) : seq[i] = x })

\* C11: when stat fails with an OS error the sort does not raise: the path gets
\* timestamp 0 and is reported; the result is a permutation of the input in
\* non-decreasing timestamp order (birth time when available, otherwise
\* modification time), failed paths precede every path with a positive
\* timestamp, and paths with equal timestamps keep their input order.
C11_SortByCreationTime ==
    so_pc = "sorted" =>
        LET out == so_out.sorted IN
        /\ so_out.raised = "none"
        /\ Len(out) = Len(so_paths)
        /\ \A p \in PathNames : Count(out, p) = Count(so_paths, p)
        /\ \A p \in PathNames :
              Count(so_out.reported, p) = IF so_stat[p].ok THEN 0 ELSE Count(so_paths, p)
        /\ \A i, j \in 1..Len(out) :
              i < j => ClaimedKey(out[i]) <= ClaimedKey(out[j])
        /\ \A i, j \in 1..Len(out) :
              (~so_stat[out[j]].ok /\ so_stat[out[i]].ok /\ Timestamp(out[i]) > 0)
                 => j < i
        /\ \A i, j \in 1..Len(out) :
              (i < j /\ ClaimedKey(out[i]) = ClaimedKey(out[j]))
                 => so_out.order[i] < so_out.order[j]
        /\ \A k \in 1..Len(out) : out[k] = so_paths[so_out.order[k]]

\* [b, a, c] with stat(a) failing, b and c both created at time 2: a is moved
\* to the front, b stays ahead of c
C11_Witness ==
    /\ so_pc = "sorted"
    /\ so_paths = <<"b", "a", "c">>
    /\ ~so_stat["a"].ok
    /\ so_stat["b"].ok /\ ClaimedKey("b") = 2
    /\ so_stat["c"].ok /\ ClaimedKey("c") = 2
    /\ so_out.sorted = <<"a", "b", "c">>
    /\ so_out.reported = <<"a">>

----------------------------------------------------------------------------
(* Properties of the label list *)

\* file was found by the scan of directory
FoundIn(file, directory) == IsPrefix(directory, file) /\ Len(file) > Len(directory)

\* C12: the labels and the files returned by collect_pattern_files are
\* parallel: row_labels[i] is the parent-directory name of the scanned
\* directory in which matched_files[i] was found; so every entry that
\* write_event_probability zips into the metric map is keyed by the label of
\* its file's directory, and no entry is overwritten or dropped.
C12_ParallelLists ==
    (cp_pc = "called" /\ cp_out.raised = "none") =>
        LET labels == cp_out.row_labels
            files == cp_out.matched_files
            summary == epilepsy_metric_summary(labels, files)
        IN /\ Len(labels) = Len(files)
           /\ \A i \in 1..Len(files) :
                 \E d \in 1..Len(cp_directories) :
                    /\ FoundIn(files[i], cp_directories[d])
                    /\ labels[i] = parent_name(cp_directories[d])
           /\ { summary[l] : l \in DOMAIN summary } = { files[i] : i \in 1..Len(files) }
           /\ Cardinality(DOMAIN summary) = Len(files)

----------------------------------------------------------------------------
(* Properties of the main run sequence *)

EvaluationNames ==
    {"Registration Summary", "Interictal Event Images", "Epilepsy Probability"}

\* the evaluation records lying below the output directory
WrittenRecords ==
    { e \in rc_tree : e.content.type = "evaluation" }

\* the directory an entry lies in
Parent(path) == SubSeq(path, 1, Len(path) - 1)

WritersDone ==
    rc_pc \in {"write_core_metadata_evaluation", "write_core_metadata_data_process", "done"}

\* C13: the three writers put their quality_evaluation.json into three
\* distinct sub-directories of the output directory, so none overwrites
\* another; the aggregation runs only after all three; when every step
\* succeeds the report holds exactly one evaluation per record written: all
\* three and nothing else.
C13_ReportHoldsAllThree ==
    /\ \A e \in WrittenRecords :
          /\ name(e.path) = quality_evaluation_json
          /\ Len(e.path) = Len(output_dir) + 2
          /\ IsPrefix(output_dir, e.path)
    /\ \A e, f \in WrittenRecords :
          (e # f) => (Parent(e.path) # Parent(f.path) /\ e.content.name # f.content.name)
    /\ WritersDone =>
          { e.content.name : e \in WrittenRecords } = EvaluationNames
    /\ rc_report.written =>
          /\ WritersDone /\ rc_pc # "write_core_metadata_evaluation"
          /\ Cardinality(WrittenRecords) = 3
          /\ Len(rc_report.items) = 3
          /\ \A k \in 1..3 : rc_report.items[k].kind = "QCEvaluation"
          /\ { rc_report.items[k].data : k \in 1..3 }
               = { e.content : e \in WrittenRecords }
          /\ \A k \in 1..3 : rc_report.items[k].data.value # "stale"

\* the script has finished and the report lists the epilepsy evaluation first
C13_Witness ==
    /\ rc_pc = "done"
    /\ rc_report.written
    /\ Len(rc_report.items) = 3
    /\ rc_report.items[1].data.name = "Epilepsy Probability"
    /\ rc_report.items[1].data.value = "True"
    /\ rc_processing.written
    /\ Len(rc_processing.items) = 2

====
